---- MODULE Spec2Model ----
(***************************************************************************)
(* Model of gm-sota-stats: the Streamlit dashboard (src/app.py) and the    *)
(* multi-summit day report (src/most-summits.py).                          *)
(*                                                                         *)
(* A pandas DataFrame is a sequence of records (row order is kept), a      *)
(* Python dict is a sequence of entries in insertion order.  Strings the   *)
(* code takes apart (summit codes, hillset names) are looked up as their   *)
(* character sequences; an ISO timestamp is the tuple of its fields.       *)
(* Columns no aggregation reads (name, latitude, longitude) are left out.  *)
(* The log is the regions -> summits nesting flattened to its summit       *)
(* entries in file order; an entry's key in the summits mapping is its     *)
(* summitCode.                                                             *)
(***************************************************************************)
EXTENDS Integers, Sequences, FiniteSets, TLC

VARIABLES
    raw_data,           \* the activation log: summit entries in file order
    pc,                 \* "offline" | "ready" | "error" | "reported"
    selected_year,      \* sidebar widget: YearAll or a year of the log
    hillset,            \* sidebar widget: a hill set name
    summits_df,         \* the catalogue of the selected hill set
    total_summits,      \* len(summits_df)
    df_summary,         \* rows of df_year inside the hill set (feed the summary)
    df_hillset,         \* rows of df inside the hill set (feed the history)
    summary,            \* the per-activator table, with "% Complete"
    selected_row,       \* table_event.selection.rows: 0 (none) or a row index
    selected_callsign,  \* Callsign of the selected row, or None
    df_call,            \* the selected activator's activated summits
    historical,         \* per (year, Callsign) counts
    top_per_year,       \* top activator of each year
    yearly_totals,      \* per year totals
    rows                \* the report rows of most-summits.py, as written

vars == <<raw_data, pc, selected_year, hillset, summits_df, total_summits, df_summary,
          df_hillset, summary, selected_row, selected_callsign, df_call,
          historical, top_per_year, yearly_totals, rows>>

dashVars == <<selected_year, hillset, summits_df, total_summits, df_summary, df_hillset,
              summary, selected_row, selected_callsign, df_call, historical,
              top_per_year, yearly_totals>>

-----------------------------------------------------------------------------
(* Bounds and input universes                                              *)

\* Most activation events a log holds.
MaxActs == 3

\* Python's None, which pandas keeps as a missing value.
None == "None"

\* The callsigns of the inputs, in Python's string order.
CallsignOrder == <<"GM4AAA", "MM0BBB">>

\* The summit entries a dashboard log may list, in file order:
\* <<summitCode, points>>.
DashSummits == << <<"GM/ES-001", 4>>, <<"GM/WS-010", 2>> >>

\* The activation events of the dashboard inputs; a timestamp is
\* <<year, month, day, hour>>.  One user with two callsigns, one callsign
\* shared by two users, one event without a callsign, one operator in two
\* years.
DashActs ==
    { [userId |-> 1, Callsign |-> "GM4AAA", ownCallsign |-> None,
       activationDate |-> <<2024, 8, 17, 0>>],
      [userId |-> 1, Callsign |-> "GM4AAA", ownCallsign |-> None,
       activationDate |-> <<2025, 8, 17, 0>>],
      [userId |-> 1, Callsign |-> "MM0BBB", ownCallsign |-> None,
       activationDate |-> <<2025, 8, 17, 0>>],
      [userId |-> 2, Callsign |-> "GM4AAA", ownCallsign |-> None,
       activationDate |-> <<2025, 8, 17, 0>>],
      [userId |-> 2, Callsign |-> None, ownCallsign |-> None,
       activationDate |-> <<2024, 8, 17, 0>>] }

\* The summit entries a report log may list: a point value outside the
\* buckets, and two summits of one value.
ReportSummits == << <<"GM/ES-001", 4>>, <<"GM/ES-002", 4>>, <<"GM/WS-010", 3>> >>

\* The activation events of the report inputs: a callsign on three days (one at
\* the end of the year before), the same callsign as the fallback field only
\* (later the same day), a second callsign with the first as its fallback, and
\* an event with an empty callsign and no fallback.
ReportActs ==
    { [userId |-> 1, Callsign |-> "GM4AAA", ownCallsign |-> None,
       activationDate |-> <<2024, 12, 31, 0>>],
      [userId |-> 1, Callsign |-> "GM4AAA", ownCallsign |-> None,
       activationDate |-> <<2025, 8, 17, 0>>],
      [userId |-> 1, Callsign |-> None, ownCallsign |-> "GM4AAA",
       activationDate |-> <<2025, 8, 17, 12>>],
      [userId |-> 1, Callsign |-> "GM4AAA", ownCallsign |-> None,
       activationDate |-> <<2025, 8, 18, 0>>],
      [userId |-> 2, Callsign |-> "MM0BBB", ownCallsign |-> "GM4AAA",
       activationDate |-> <<2025, 8, 17, 0>>],
      [userId |-> 2, Callsign |-> "", ownCallsign |-> None,
       activationDate |-> <<2025, 8, 17, 0>>] }

\* What datetime.now(UTC).year may be when a session starts.
CurrentYears == { 2025, 2026 }

\* The hill sets of the sidebar that are modelled (the other regions and the
\* other two curated lists go through the same branches).
Hillsets == { "All Scotland", "Region GM/ES", "Region GM/WS", "Munros" }

\* munros.json after the rename: a row without a reference, a Munro that is
\* in no activation, a Munro that may be.
sota_munros ==
    << [summitCode |-> "GM/ES-001", points |-> 4],
       [summitCode |-> None, points |-> 10],
       [summitCode |-> "GM/CS-001", points |-> 10] >>

-----------------------------------------------------------------------------
(* Strings                                                                 *)

Chars(s) ==
    CASE s = "GM/ES-001" -> <<"G","M","/","E","S","-","0","0","1">>
      [] s = "GM/ES-002" -> <<"G","M","/","E","S","-","0","0","2">>
      [] s = "GM/WS-010" -> <<"G","M","/","W","S","-","0","1","0">>
      [] s = "GM/CS-001" -> <<"G","M","/","C","S","-","0","0","1">>
      [] s = "All Scotland" -> <<"A","l","l"," ","S","c","o","t","l","a","n","d">>
      [] s = "Region GM/ES" -> <<"R","e","g","i","o","n"," ","G","M","/","E","S">>
      [] s = "Region GM/WS" -> <<"R","e","g","i","o","n"," ","G","M","/","W","S">>
      [] s = "Munros" -> <<"M","u","n","r","o","s">>

\* str.startswith
StartsWith(cs, prefix) ==
    /\ Len(prefix) <= Len(cs)
    /\ SubSeq(cs, 1, Len(prefix)) = prefix

\* s.split("/")[-1]
SplitLast(cs) ==
    LET idx == { i \in 1..Len(cs) : cs[i] = "/" }
    IN  IF idx = {} THEN cs
        ELSE SubSeq(cs, (CHOOSE i \in idx : \A j \in idx : j <= i) + 1, Len(cs))

\* Rank of a callsign in Python's string order; pandas sorts a missing key
\* after every other.
CallsignRank(c) ==
    IF c = None THEN Len(CallsignOrder) + 1
    ELSE CHOOSE i \in 1..Len(CallsignOrder) : CallsignOrder[i] = c

-----------------------------------------------------------------------------
(* Sequence helpers standing for pandas / Python primitives                *)

Range(s) == { s[i] : i \in 1..Len(s) }

\* Lexicographic order on integer tuples of one length (Python tuple order).
LexLess(a, b) ==
    \E i \in 1..Len(a) :
        /\ \A j \in 1..(i - 1) : a[j] = b[j]
        /\ a[i] < b[i]

\* The rows of s at the indices in keep, in their order.
Pick(s, keep) ==
    LET n == Cardinality(keep)
        at(p) == CHOOSE i \in keep : Cardinality({ j \in keep : j < i }) = p - 1
    IN  [p \in 1..n |-> s[at(p)]]

\* A stable sort of s by the integer tuples K[i] (list.sort, and sort_values
\* on several columns, which pandas sorts with a stable lexsort).
StableSortBy(s, K) ==
    LET n == Len(s)
        pos(i) == Cardinality({ j \in 1..n :
                      LexLess(K[j], K[i]) \/ (K[j] = K[i] /\ j < i) }) + 1
    IN  [p \in 1..n |-> s[CHOOSE i \in 1..n : pos(i) = p]]

\* DataFrame.drop_duplicates(subset=...): the first row of each key is kept.
\* K[i] is the key of row i.
DropDuplicatesBy(s, K) ==
    Pick(s, { i \in 1..Len(s) : \A j \in 1..(i - 1) : K[j] # K[i] })

-----------------------------------------------------------------------------
(* app.py: the activation dataframe and the catalogues                     *)

\* The rows one summit entry gives, one per activation.
SummitRows(entry) ==
    [i \in 1..Len(entry.activations) |->
        [userId         |-> entry.activations[i].userId,
         Callsign       |-> entry.activations[i].Callsign,
         activationDate |-> entry.activations[i].activationDate,
         year           |-> entry.activations[i].activationDate[1],
         summitCode     |-> entry.summitCode,
         points         |-> entry.points]]

RECURSIVE FlattenFrom(_, _)
FlattenFrom(data, k) ==
    IF k > Len(data) THEN <<>>
    ELSE SummitRows(data[k]) \o FlattenFrom(data, k + 1)

build_activation_dataframe(data) == FlattenFrom(data, 1)

\* All SOTA GM summits: the summit columns of df, one row per summitCode.
all_sota_summits(df) ==
    LET cols == [i \in 1..Len(df) |->
                    [summitCode |-> df[i].summitCode, points |-> df[i].points]]
    IN  DropDuplicatesBy(cols, [i \in 1..Len(cols) |-> cols[i].summitCode])

\* sorted(df["year"].unique(), reverse=True), as the set of its members.
years(df) == { df[i].year : i \in 1..Len(df) }

YearAll == [kind |-> "ALL", year |-> 0]
YearOf(y) == [kind |-> "year", year |-> y]

year_options(df) == { YearAll } \cup { YearOf(y) : y \in years(df) }

\* The default of the year selectbox.
default_year(df, current_year) ==
    IF current_year \in years(df) THEN YearOf(current_year) ELSE YearAll

\* Year filter.
df_year(df, sel) ==
    IF sel = YearAll THEN df
    ELSE SelectSeq(df, LAMBDA r : r.year = sel.year)

\* Hillset summit catalogue.
\* Mutant: the prefix without the area code.
region_prefix_no_area(hs) == <<"G","M","/">>

\* f"GM/{code}" with code = hillset.split("/")[-1]
region_prefix(hs) == <<"G","M","/">> \o SplitLast(Chars(hs))

summits_df_of(df, hs) ==
    IF hs = "All Scotland" THEN all_sota_summits(df)
    ELSE IF StartsWith(Chars(hs), <<"R","e","g","i","o","n">>) THEN
        SelectSeq(all_sota_summits(df),
            LAMBDA r : StartsWith(Chars(r.summitCode), region_prefix(hs)))
    ELSE sota_munros

\* summits_df["summitCode"].dropna(), as a set of codes.
hillset_codes(cat) == { cat[i].summitCode : i \in 1..Len(cat) } \ { None }

\* df[df["summitCode"].isin(codes)]
IsIn(df, codes) == SelectSeq(df, LAMBDA r : r.summitCode \in codes)

-----------------------------------------------------------------------------
(* app.py: the aggregations                                                *)

\* Mutant: groupby(..., dropna=False) keeps the rows without a Callsign.
notna_off(v) == TRUE

\* groupby(...) leaves out the rows whose Callsign key is missing (dropna).
notna(v) == v # None

\* Mutant: the summary counts rows, without de-duplication.
summary_dedup_off(input) == input

\* .drop_duplicates(subset=["userId", "summitCode"])
summary_dedup(input) ==
    DropDuplicatesBy(input,
        [i \in 1..Len(input) |-> <<input[i].userId, input[i].summitCode>>])

\* The groups of .groupby(["userId", "Callsign"]).size(), in groupby's
\* sorted key order: <<userId, Callsign, size>>.
summary_groups(input) ==
    LET dedup == summary_dedup(input)
        keyed == SelectSeq(dedup, LAMBDA r : notna(r.Callsign))
        first == DropDuplicatesBy(keyed,
                    [i \in 1..Len(keyed) |-> <<keyed[i].userId, keyed[i].Callsign>>])
        sized == [i \in 1..Len(first) |->
                    [userId   |-> first[i].userId,
                     Callsign |-> first[i].Callsign,
                     SummitsActivated |->
                        Cardinality({ j \in 1..Len(keyed) :
                            /\ keyed[j].userId = first[i].userId
                            /\ keyed[j].Callsign = first[i].Callsign })]]
    IN  StableSortBy(sized,
            [i \in 1..Len(sized) |->
                <<sized[i].userId, CallsignRank(sized[i].Callsign)>>])

\* round(0) of n / d, d > 0: numpy rounds halves to even.
RoundHalfEven(n, d) ==
    LET q == n \div d
        r == n % d
    IN  IF 2 * r < d THEN q
        ELSE IF 2 * r > d THEN q + 1
        ELSE IF q % 2 = 0 THEN q ELSE q + 1

\* (count / total * 100).round(0): a float division, so a zero total gives
\* inf (or NaN for 0 / 0) and raises nothing.
pct_complete(count, total) ==
    IF total = 0
    THEN IF count = 0 THEN [kind |-> "NaN", value |-> 0]
                      ELSE [kind |-> "inf", value |-> 0]
    ELSE [kind |-> "number", value |-> RoundHalfEven(count * 100, total)]

\* The orders sort_values("Summits Activated", ascending=False) may give:
\* its default sort is not stable, so rows of one count come in any order.
sorted_descending(groups) ==
    LET n == Len(groups)
        perms == { p \in [1..n -> 1..n] : \A i, j \in 1..n : i # j => p[i] # p[j] }
    IN  { [i \in 1..n |-> groups[p[i]]] : p \in
            { q \in perms : \A i \in 1..(n - 1) :
                groups[q[i]].SummitsActivated >= groups[q[i + 1]].SummitsActivated } }

\* A summary table with its "% Complete" column, for one sorted order.
with_pct(table, total) ==
    [i \in 1..Len(table) |->
        [userId           |-> table[i].userId,
         Callsign         |-> table[i].Callsign,
         SummitsActivated |-> table[i].SummitsActivated,
         PctComplete      |-> pct_complete(table[i].SummitsActivated, total)]]

\* Mutant: the summary is computed from the rows of the year, whatever the hill set.
summary_input_any_hill(df, sel, cat) == df_year(df, sel)

\* The rows the summary is computed from.
summary_input(df, sel, cat) == IsIn(df_year(df, sel), hillset_codes(cat))

\* The selected activator's activated summits.
df_call_of(df, sel, cat, callsign) ==
    LET mine == SelectSeq(df_year(df, sel),
                    LAMBDA r : r.Callsign = callsign
                               /\ r.summitCode \in hillset_codes(cat))
    IN  DropDuplicatesBy(mine, [i \in 1..Len(mine) |-> mine[i].summitCode])

\* df_hillset.drop_duplicates(subset=["userId", "summitCode", "year"])
dedup_year(frame) ==
    DropDuplicatesBy(frame,
        [i \in 1..Len(frame) |->
            <<frame[i].userId, frame[i].summitCode, frame[i].year>>])

\* .groupby(["year", "Callsign"]).size().reset_index(name="Summits")
historical_of(frame) ==
    LET keyed == SelectSeq(dedup_year(frame), LAMBDA r : notna(r.Callsign))
        first == DropDuplicatesBy(keyed,
                    [i \in 1..Len(keyed) |-> <<keyed[i].year, keyed[i].Callsign>>])
        sized == [i \in 1..Len(first) |->
                    [year     |-> first[i].year,
                     Callsign |-> first[i].Callsign,
                     Summits  |->
                        Cardinality({ j \in 1..Len(keyed) :
                            /\ keyed[j].year = first[i].year
                            /\ keyed[j].Callsign = first[i].Callsign })]]
    IN  StableSortBy(sized,
            [i \in 1..Len(sized) |->
                <<sized[i].year, CallsignRank(sized[i].Callsign)>>])

\* Mutant: both columns ascending.
top_sort_key_ascending(r) == <<r.year, r.Summits>>

\* The sort key of ["year", "Summits"], ascending=[True, False].
top_sort_key(r) == <<r.year, 0 - r.Summits>>

\* .sort_values(["year", "Summits"], ascending=[True, False])
\* .groupby("year").head(1).sort_values("year", ascending=False)
\* .rename(columns={"year": "Year"})
top_per_year_of(hist) ==
    LET sorted == StableSortBy(hist, [i \in 1..Len(hist) |-> top_sort_key(hist[i])])
        heads == Pick(sorted, { i \in 1..Len(sorted) :
                    \A j \in 1..(i - 1) : sorted[j].year # sorted[i].year })
        byYear == StableSortBy(heads,
                    [i \in 1..Len(heads) |-> <<0 - heads[i].year>>])
    IN  [i \in 1..Len(byYear) |->
            [Year     |-> byYear[i].year,
             Callsign |-> byYear[i].Callsign,
             Summits  |-> byYear[i].Summits]]

\* .groupby("year").size().reset_index(name="Total Activations")
yearly_totals_of(frame) ==
    LET dedup == dedup_year(frame)
        first == DropDuplicatesBy(dedup, [i \in 1..Len(dedup) |-> dedup[i].year])
        sized == [i \in 1..Len(first) |->
                    [year |-> first[i].year,
                     TotalActivations |->
                        Cardinality({ j \in 1..Len(dedup) :
                            dedup[j].year = first[i].year })]]
    IN  StableSortBy(sized, [i \in 1..Len(sized) |-> <<sized[i].year>>])

\* Mutant: the history is computed from the rows of the selected year.
history_input_of_year(df, sel, cat) == IsIn(df_year(df, sel), hillset_codes(cat))

\* The frame the two historical views are computed from.
history_input(df, sel, cat) == IsIn(df, hillset_codes(cat))

-----------------------------------------------------------------------------
(* The activation log (external, regenerated nightly, append-only)         *)

TotalActs(data) == Len(build_activation_dataframe(data))

IndexOf(U, code) == CHOOSE k \in 1..Len(U) : U[k][1] = code

\* The log lists one more summit, with no activation yet.
LogSummit(U) ==
    /\ pc = "offline"
    /\ \E k \in 1..Len(U) :
        /\ \A i \in 1..Len(raw_data) : IndexOf(U, raw_data[i].summitCode) < k
        /\ raw_data' = Append(raw_data,
                [summitCode |-> U[k][1], points |-> U[k][2], activations |-> <<>>])
    /\ UNCHANGED <<pc, dashVars, rows>>

\* The log records one more activation of a listed summit.
LogActivation(A) ==
    /\ pc = "offline"
    /\ TotalActs(raw_data) < MaxActs
    /\ \E i \in 1..Len(raw_data), act \in A :
        raw_data' = [raw_data EXCEPT ![i].activations = Append(@, act)]
    /\ UNCHANGED <<pc, dashVars, rows>>

-----------------------------------------------------------------------------
(* app.py: one run of the script, top to bottom                            *)

\* The script run with the widgets at (sel, hs, row); table is the summary
\* when the run does not recompute a new order for it.
Script(sel, hs, row, table) ==
    LET df  == build_activation_dataframe(raw_data)
        cat == summits_df_of(df, hs)
        callsign == IF row = 0 THEN None ELSE table[row].Callsign
    IN  /\ selected_year' = sel
        /\ hillset' = hs
        /\ summits_df' = cat
        /\ total_summits' = Len(cat)
        /\ df_summary' = summary_input(df, sel, cat)
        /\ df_hillset' = history_input(df, sel, cat)
        /\ summary' = table
        /\ selected_row' = row
        /\ selected_callsign' = callsign
        /\ df_call' = IF callsign # None
                      THEN df_call_of(df, sel, cat, callsign) ELSE <<>>
        /\ historical' = historical_of(history_input(df, sel, cat))
        /\ top_per_year' = top_per_year_of(historical_of(history_input(df, sel, cat)))
        /\ yearly_totals' = yearly_totals_of(history_input(df, sel, cat))

\* The summary tables a run with the widgets at (sel, hs) may show.
summary_tables(sel, hs) ==
    LET df  == build_activation_dataframe(raw_data)
        cat == summits_df_of(df, hs)
    IN  { with_pct(t, Len(cat)) :
            t \in sorted_descending(summary_groups(summary_input(df, sel, cat))) }

\* A session starts.  A log without any activation gives a DataFrame without
\* columns, and selecting the summit columns raises KeyError.
Load ==
    /\ pc = "offline"
    /\ IF build_activation_dataframe(raw_data) = <<>>
       THEN /\ pc' = "error"
            /\ UNCHANGED dashVars
       ELSE /\ pc' = "ready"
            /\ \E current_year \in CurrentYears :
               LET sel == default_year(build_activation_dataframe(raw_data), current_year)
               IN  \E table \in summary_tables(sel, "All Scotland") :
                       Script(sel, "All Scotland", 0, table)
    /\ UNCHANGED <<raw_data, rows>>

\* The year selectbox changes; the table is new, so no row is selected.
SelectYear ==
    /\ pc = "ready"
    /\ \E sel \in year_options(build_activation_dataframe(raw_data)) \ { selected_year } :
        \E table \in summary_tables(sel, hillset) :
            Script(sel, hillset, 0, table)
    /\ UNCHANGED <<raw_data, pc, rows>>

\* The hill set selectbox changes.
SelectHillset ==
    /\ pc = "ready"
    /\ \E hs \in Hillsets \ { hillset } :
        \E table \in summary_tables(selected_year, hs) :
            Script(selected_year, hs, 0, table)
    /\ UNCHANGED <<raw_data, pc, rows>>

\* A row of the table is selected (or the selection cleared): a rerun with
\* the same inputs, which shows the same table.
SelectRow ==
    /\ pc = "ready"
    /\ \E row \in (0..Len(summary)) \ { selected_row } :
        Script(selected_year, hillset, row, summary)
    /\ UNCHANGED <<raw_data, pc, rows>>

Init ==
    /\ raw_data = <<>>
    /\ pc = "offline"
    /\ selected_year = YearAll
    /\ hillset = "All Scotland"
    /\ summits_df = <<>>
    /\ total_summits = 0
    /\ df_summary = <<>>
    /\ df_hillset = <<>>
    /\ summary = <<>>
    /\ selected_row = 0
    /\ selected_callsign = None
    /\ df_call = <<>>
    /\ historical = <<>>
    /\ top_per_year = <<>>
    /\ yearly_totals = <<>>
    /\ rows = <<>>

-----------------------------------------------------------------------------
(* most-summits.py                                                         *)

POINT_VALUES == <<1, 2, 4, 6, 8, 10>>

\* Convert '2025-08-17T00:00:00Z' -> '2025-08-17': the date fields.
normalise_date(date_str) == <<date_str[1], date_str[2], date_str[3]>>

\* "not x" for a callsign field: None and the empty string are false.
Falsy(x) == x = None \/ x = ""

\* act.get("Callsign") or act.get("ownCallsign")
callsign_of(act) == IF Falsy(act.Callsign) THEN act.ownCallsign ELSE act.Callsign

\* Mutant: every activation adds an entry, a repeated summit too.
dict_set_append(d, code, pts) == Append(d, <<code, pts>>)

\* d[code] = pts on a dict kept as its <<key, value>> pairs in insertion order.
dict_set(d, code, pts) ==
    IF \E i \in 1..Len(d) : d[i][1] = code
    THEN [i \in 1..Len(d) |-> IF d[i][1] = code THEN <<code, pts>> ELSE d[i]]
    ELSE Append(d, <<code, pts>>)

\* One activation added to activations_by_day, a defaultdict(dict) kept as its
\* entries in insertion order.
add_activation(by_day, code, pts, act) ==
    LET date == normalise_date(act.activationDate)
        callsign == callsign_of(act)
        key == <<date, callsign>>
    IN  IF Falsy(callsign) THEN by_day
        ELSE IF \E i \in 1..Len(by_day) : by_day[i].key = key
        THEN [i \in 1..Len(by_day) |->
                IF by_day[i].key = key
                THEN [key |-> key, summits |-> dict_set(by_day[i].summits, code, pts)]
                ELSE by_day[i]]
        ELSE Append(by_day, [key |-> key, summits |-> dict_set(<<>>, code, pts)])

\* The loop over regions, summits and activations, from activation j of entry i.
RECURSIVE activations_by_day(_, _, _, _)
activations_by_day(data, i, j, by_day) ==
    IF i > Len(data) THEN by_day
    ELSE IF j > Len(data[i].activations)
        THEN activations_by_day(data, i + 1, 1, by_day)
        ELSE activations_by_day(data, i, j + 1,
                add_activation(by_day, data[i].summitCode, data[i].points,
                               data[i].activations[j]))

RECURSIVE sum_values(_, _)
sum_values(d, k) == IF k > Len(d) THEN 0 ELSE d[k][2] + sum_values(d, k + 1)

\* The row of one (date, callsign) group; "summits" is the sorted, joined list of
\* codes, kept as the set it lists.
report_row(entry) ==
    [date |-> entry.key[1],
     callsign |-> entry.key[2],
     number_of_summits |-> Len(entry.summits),
     total_points |-> sum_values(entry.summits, 1),
     summits |-> { entry.summits[i][1] : i \in 1..Len(entry.summits) },
     pt |-> [p \in Range(POINT_VALUES) |->
                Cardinality({ i \in 1..Len(entry.summits) : entry.summits[i][2] = p })]]

\* Mutant: the date is left out of the sort key.
report_sort_key_no_date(r) == <<0 - r.number_of_summits, 0 - r.total_points, 0, 0, 0>>

\* Sort: most summits, then most points, then date (ISO dates compare as their
\* fields do).
report_sort_key(r) ==
    <<0 - r.number_of_summits, 0 - r.total_points, r.date[1], r.date[2], r.date[3]>>

report_rows(data) ==
    LET by_day == activations_by_day(data, 1, 1, <<>>)
        unsorted == [i \in 1..Len(by_day) |-> report_row(by_day[i])]
    IN  StableSortBy(unsorted,
            [i \in 1..Len(unsorted) |-> report_sort_key(unsorted[i])])

\* main(): the report is computed from the log and written.
main ==
    /\ pc = "offline"
    /\ rows' = report_rows(raw_data)
    /\ pc' = "reported"
    /\ UNCHANGED <<raw_data, dashVars>>

LogDashSummit == LogSummit(DashSummits)
LogDashActivation == LogActivation(DashActs)

\* The dashboard with its two filters.
Next ==
    \/ LogDashSummit
    \/ LogDashActivation
    \/ Load
    \/ SelectYear
    \/ SelectHillset

Spec == Init /\ [][Next]_vars

\* The dashboard with the table's row selection as well.
NextSelect ==
    \/ LogDashSummit
    \/ LogDashActivation
    \/ Load
    \/ SelectYear
    \/ SelectHillset
    \/ SelectRow

SpecSelect == Init /\ [][NextSelect]_vars

LogReportSummit == LogSummit(ReportSummits)
LogReportActivation == LogActivation(ReportActs)

\* The batch report over its log.
NextReport ==
    \/ LogReportSummit
    \/ LogReportActivation
    \/ main

SpecReport == Init /\ [][NextReport]_vars

-----------------------------------------------------------------------------
(* What the dashboard claims are stated over                                *)

\* The flat activation table of the loaded log.
df == build_activation_dataframe(raw_data)

\* The area of a summit code and of a region hill set, read off the names.
AreaOfCode(code) ==
    CASE code = "GM/ES-001" -> "ES"
      [] code = "GM/WS-010" -> "WS"
      [] code = "GM/CS-001" -> "CS"

AreaOfHillset(hs) ==
    CASE hs = "Region GM/ES" -> "ES"
      [] hs = "Region GM/WS" -> "WS"

\* Whether a summit of the log belongs to a hill set, by the hill set's
\* meaning: every activated summit, the summits of one area, the Munro list.
InHillset(code, hs) ==
    CASE hs = "All Scotland" -> TRUE
      [] hs \in { "Region GM/ES", "Region GM/WS" } -> AreaOfCode(code) = AreaOfHillset(hs)
      [] hs = "Munros" -> code \in { "GM/ES-001", "GM/CS-001" }

InYear(y, sel) == sel = YearAll \/ sel.year = y

\* The activation events of the log by position: <<summit entry, activation>>.
LogEvents ==
    UNION { { <<i, j>> : j \in 1..Len(raw_data[i].activations) } :
            i \in 1..Len(raw_data) }

EventAct(e) == raw_data[e[1]].activations[e[2]]
EventCode(e) == raw_data[e[1]].summitCode
EventYear(e) == EventAct(e).activationDate[1]

\* The events the summary is about: in the hill set's code set and the year.
SummaryEvents ==
    { e \in LogEvents :
        /\ EventCode(e) \in hillset_codes(summits_df)
        /\ InYear(EventYear(e), selected_year) }

\* C1 as claimed: every row's count is the number of distinct summit codes
\* among the rows of its (userId, Callsign) group inside the hill set and year.
C1_CountsGroupSummits ==
    pc = "ready" =>
        \A i \in 1..Len(summary) :
            summary[i].SummitsActivated =
                Cardinality({ EventCode(e) : e \in
                    { x \in SummaryEvents :
                        /\ EventAct(x).userId = summary[i].userId
                        /\ EventAct(x).Callsign = summary[i].Callsign } })

\* The summits credited to (u, c): those whose first activation by user u, among
\* the events of the hill set and year, carries callsign c.
FirstSeenSummits(u, c) ==
    { EventCode(e) : e \in
        { x \in SummaryEvents :
            /\ EventAct(x).userId = u
            /\ EventAct(x).Callsign = c
            /\ \A y \in SummaryEvents :
                (y[1] = x[1] /\ y[2] < x[2]) => EventAct(y).userId # u } }

\* C1 (amended): the rows of the summary are distinct (userId, Callsign) groups
\* with a callsign, in non-increasing order of count; a row's count is the number
\* of distinct summits, in the hill set and year, whose first activation by that
\* userId carries that Callsign; and every group with such a summit has a row.
C1_CountsFirstSeenSummits ==
    pc = "ready" =>
        /\ \A i \in 1..Len(summary) :
            /\ summary[i].Callsign # None
            /\ summary[i].SummitsActivated =
                Cardinality(FirstSeenSummits(summary[i].userId, summary[i].Callsign))
            /\ \A j \in 1..Len(summary) :
                (summary[j].userId = summary[i].userId
                 /\ summary[j].Callsign = summary[i].Callsign) => j = i
            /\ i < Len(summary) =>
                summary[i].SummitsActivated >= summary[i + 1].SummitsActivated
        /\ \A e \in SummaryEvents :
            (EventAct(e).Callsign # None
             /\ FirstSeenSummits(EventAct(e).userId, EventAct(e).Callsign) # {}) =>
                \E i \in 1..Len(summary) :
                    /\ summary[i].userId = EventAct(e).userId
                    /\ summary[i].Callsign = EventAct(e).Callsign

\* C1 witness: with a year selected, one operator activated a summit twice and
\* another once, and the row counts two summits.
C1_Witness ==
    /\ pc = "ready"
    /\ selected_year = YearOf(2025)
    /\ Len(df_summary) = 3
    /\ Len(summary) = 1
    /\ summary[1].SummitsActivated = 2

-----------------------------------------------------------------------------
(* Top activator per year                                                  *)

\* The years that have a counted (callsign-bearing) activation in the hill set.
CountedYears == { df_hillset[i].year : i \in
                    { k \in 1..Len(df_hillset) : df_hillset[k].Callsign # None } }

\* The per-(year, Callsign) counts of one year.
CountsOfYear(y) == { h \in Range(historical) : h.year = y }

\* The callsigns at the highest count of a year.
TiedAtTop(y) ==
    { h.Callsign : h \in
        { g \in CountsOfYear(y) : \A o \in CountsOfYear(y) : o.Summits <= g.Summits } }

\* The first input row of a callsign in a year.
FirstRow(c, y) ==
    CHOOSE i \in 1..Len(df_hillset) :
        /\ df_hillset[i].Callsign = c /\ df_hillset[i].year = y
        /\ \A j \in 1..(i - 1) : ~(df_hillset[j].Callsign = c /\ df_hillset[j].year = y)

\* Each counted year has exactly one row, a row of the counts, at the highest count.
TopRowPerYear ==
    /\ { top_per_year[i].Year : i \in 1..Len(top_per_year) } = CountedYears
    /\ \A i, j \in 1..Len(top_per_year) :
        top_per_year[i].Year = top_per_year[j].Year => i = j
    /\ \A i \in 1..Len(top_per_year) :
        top_per_year[i].Callsign \in TiedAtTop(top_per_year[i].Year)
    /\ \A i \in 1..Len(top_per_year) :
        \E h \in CountsOfYear(top_per_year[i].Year) :
            h.Callsign = top_per_year[i].Callsign /\ h.Summits = top_per_year[i].Summits

C2_WitnessHigher ==
    /\ pc = "ready"
    /\ \E i \in 1..Len(top_per_year) :
        /\ Cardinality(CountsOfYear(top_per_year[i].Year)) = 2
        /\ Cardinality(TiedAtTop(top_per_year[i].Year)) = 1
        /\ top_per_year[i].Callsign = "MM0BBB"

-----------------------------------------------------------------------------
(* Activations without a Callsign                                          *)

NoCallsignEvents == { e \in LogEvents : EventAct(e).Callsign = None }

\* C3 as claimed: a callsign-less event keeps its row, and the row is counted in
\* a summary row and in the per-year activator counts under a null Callsign.
C3_NullCallsignCounted ==
    pc = "ready" =>
        /\ \A i \in 1..Len(df_summary) :
            df_summary[i].Callsign = None =>
                \E k \in 1..Len(summary) :
                    summary[k].userId = df_summary[i].userId
                    /\ summary[k].Callsign = None
        /\ \A i \in 1..Len(df_hillset) :
            df_hillset[i].Callsign = None =>
                \E k \in 1..Len(historical) :
                    historical[k].year = df_hillset[i].year
                    /\ historical[k].Callsign = None

\* C3 (amended): a callsign-less event keeps its flattened row, with the missing
\* marker, and the row reaches the filtered frames and is counted in the yearly
\* totals; but no row of the summary, of the per-year activator counts or of the
\* top-activator table has a null Callsign.
C3_NullCallsignKeptNotGrouped ==
    pc = "ready" =>
        /\ Cardinality({ i \in 1..Len(df) : df[i].Callsign = None })
            = Cardinality(NoCallsignEvents)
        /\ \A e \in NoCallsignEvents :
            \E i \in 1..Len(df) :
                /\ df[i].Callsign = None
                /\ df[i].userId = EventAct(e).userId
                /\ df[i].summitCode = EventCode(e)
                /\ df[i].year = EventYear(e)
        /\ \A e \in NoCallsignEvents :
            InHillset(EventCode(e), hillset) =>
                /\ \E i \in 1..Len(df_hillset) :
                    df_hillset[i].Callsign = None
                    /\ df_hillset[i].summitCode = EventCode(e)
                /\ \E k \in 1..Len(yearly_totals) :
                    yearly_totals[k].year = EventYear(e)
                    /\ yearly_totals[k].TotalActivations >= 1
                /\ InYear(EventYear(e), selected_year) =>
                    \E i \in 1..Len(df_summary) :
                        df_summary[i].Callsign = None
                        /\ df_summary[i].summitCode = EventCode(e)
        /\ \A k \in 1..Len(summary) : summary[k].Callsign # None
        /\ \A k \in 1..Len(historical) : historical[k].Callsign # None
        /\ \A k \in 1..Len(top_per_year) : top_per_year[k].Callsign # None

\* C3 witness: the only activations of the view lack a callsign: the frames hold
\* their rows, the yearly totals count them, the summary is empty.
C3_Witness ==
    /\ pc = "ready"
    /\ Len(df_summary) = 2
    /\ \A i \in 1..Len(df_summary) : df_summary[i].Callsign = None
    /\ summary = <<>>
    /\ historical = <<>>
    /\ Len(yearly_totals) = 1

-----------------------------------------------------------------------------
(* "% Complete" against an empty hill set                                  *)

\* C6: in a run that shows a hill set with total_summits = 0, every row of the
\* summary reports "% Complete" as NaN (the division is a float division, which
\* raises nothing).
C6_ZeroTotalIsNaN ==
    (pc = "ready" /\ total_summits = 0) =>
        \A i \in 1..Len(summary) : summary[i].PctComplete.kind = "NaN"

\* C6 witness: a region without any summit is selected while the log has
\* activations of the selected year elsewhere.
C6_Witness ==
    /\ pc = "ready"
    /\ total_summits = 0
    /\ hillset = "Region GM/WS"
    /\ df_year(df, selected_year) # <<>>

-----------------------------------------------------------------------------
(* The historical views                                                    *)

\* The distinct (userId, summitCode) pairs of a year inside the hill set.
PairsOfYear(y) ==
    { <<EventAct(e).userId, EventCode(e)>> : e \in
        { x \in LogEvents : EventYear(x) = y /\ InHillset(EventCode(x), hillset) } }

YearsInHillset ==
    { EventYear(e) : e \in { x \in LogEvents : InHillset(EventCode(x), hillset) } }

YearlyTotalsCountPairs ==
    /\ { yearly_totals[k].year : k \in 1..Len(yearly_totals) } = YearsInHillset
    /\ \A k \in 1..Len(yearly_totals) :
        /\ yearly_totals[k].TotalActivations = Cardinality(PairsOfYear(yearly_totals[k].year))
        /\ \A j \in 1..Len(yearly_totals) :
            yearly_totals[j].year = yearly_totals[k].year => j = k

\* C7: a rerun that keeps the log and the hill set leaves the top-activator table
\* and the yearly totals as they were, whatever year is selected; and each yearly
\* total is the number of distinct (userId, summitCode) pairs of its year.
C7_HistoryIgnoresYear ==
    [][ /\ (pc = "ready" /\ pc' = "ready" /\ hillset' = hillset) =>
            (top_per_year' = top_per_year /\ yearly_totals' = yearly_totals)
        /\ pc' = "ready" => YearlyTotalsCountPairs' ]_vars

\* C7 witness: one year is selected and the historical views span two years.
C7_Witness ==
    /\ pc = "ready"
    /\ selected_year = YearOf(2024)
    /\ Len(yearly_totals) = 2
    /\ Len(top_per_year) = 2

-----------------------------------------------------------------------------
(* The hill set filter                                                     *)

C8_WitnessEmpty ==
    /\ pc = "ready"
    /\ hillset = "Region GM/WS"
    /\ summits_df = <<>>
    /\ df_summary = <<>>

-----------------------------------------------------------------------------
(* The All Scotland catalogue                                              *)

\* C9 as claimed: the All Scotland catalogue holds every summit the log lists,
\* with or without activations, and total_summits is their number.
C9_CatalogueListsAllSummits ==
    (pc = "ready" /\ hillset = "All Scotland") =>
        /\ \A i \in 1..Len(raw_data) :
            raw_data[i].summitCode \in hillset_codes(summits_df)
        /\ total_summits = Cardinality({ raw_data[i].summitCode : i \in 1..Len(raw_data) })

-----------------------------------------------------------------------------
(* The selected activator's map                                            *)

\* C10 as claimed: the selected activator's map shows as many summits as the
\* selected row counts.
C10_MapMatchesRow ==
    (pc = "ready" /\ selected_row # 0) =>
        Len(df_call) = summary[selected_row].SummitsActivated

-----------------------------------------------------------------------------
(* The multi-summit day report                                             *)

\* The callsign-bearing events of a (date, callsign) pair.
DayEvents(date, callsign) ==
    { e \in LogEvents :
        /\ <<EventAct(e).activationDate[1], EventAct(e).activationDate[2],
             EventAct(e).activationDate[3]>> = date
        /\ \/ EventAct(e).Callsign = callsign
           \/ (EventAct(e).Callsign \in { None, "" } /\ EventAct(e).ownCallsign = callsign) }

\* The (date, callsign) pairs with a callsign-bearing activation.
DayPairs ==
    { <<d, c>> \in
        { <<a.activationDate[1], a.activationDate[2], a.activationDate[3]>> :
            a \in ReportActs } \X Range(CallsignOrder) :
        DayEvents(d, c) # {} }

\* The summit entries activated in a (date, callsign) pair.
DaySummits(date, callsign) == { e[1] : e \in DayEvents(date, callsign) }

RECURSIVE SumOfPoints(_)
SumOfPoints(S) ==
    IF S = {} THEN 0
    ELSE LET i == CHOOSE x \in S : TRUE
         IN  raw_data[i].points + SumOfPoints(S \ { i })

\* C4: each (date, callsign) pair with a callsign-bearing activation has exactly
\* one row, no other row exists, and the row gives the number of distinct summits
\* of the pair, the sum of their points, and per bucket the number of them with
\* that point value (a value outside the buckets is in no bucket).
C4_DayRows ==
    pc = "reported" =>
        /\ { <<rows[k].date, rows[k].callsign>> : k \in 1..Len(rows) } = DayPairs
        /\ \A k, l \in 1..Len(rows) :
            (rows[k].date = rows[l].date /\ rows[k].callsign = rows[l].callsign) => k = l
        /\ \A k \in 1..Len(rows) :
            LET S == DaySummits(rows[k].date, rows[k].callsign)
            IN  /\ rows[k].number_of_summits = Cardinality(S)
                /\ rows[k].total_points = SumOfPoints(S)
                /\ DOMAIN rows[k].pt = { 1, 2, 4, 6, 8, 10 }
                /\ \A p \in { 1, 2, 4, 6, 8, 10 } :
                    rows[k].pt[p] = Cardinality({ i \in S : raw_data[i].points = p })

\* C4 witness: a day on which one callsign activated a summit twice (once under
\* the fallback field) and a summit worth 3 points: two summits, 7 points, one
\* summit in the 4-point bucket.
C4_Witness ==
    /\ pc = "reported"
    /\ Cardinality(LogEvents) = 3
    /\ Len(rows) = 1
    /\ rows[1].number_of_summits = 2
    /\ rows[1].total_points = 7
    /\ rows[1].pt[4] = 1

\* C5: consecutive rows are non-increasing in number_of_summits, then
\* non-increasing in total_points, then non-decreasing in date.
C5_SortOrder ==
    pc = "reported" =>
        \A k \in 1..(Len(rows) - 1) :
            \/ rows[k].number_of_summits > rows[k + 1].number_of_summits
            \/ /\ rows[k].number_of_summits = rows[k + 1].number_of_summits
               /\ rows[k].total_points > rows[k + 1].total_points
            \/ /\ rows[k].number_of_summits = rows[k + 1].number_of_summits
               /\ rows[k].total_points = rows[k + 1].total_points
               /\ \/ rows[k].date = rows[k + 1].date
                  \/ LexLess(rows[k].date, rows[k + 1].date)

\* C5 witness: three rows, the first ahead on points, the other two equal in
\* summits and points and in date order, though logged in the other order.
C5_Witness ==
    /\ pc = "reported"
    /\ Len(rows) = 3
    /\ rows[1].total_points > rows[2].total_points
    /\ rows[2].total_points = rows[3].total_points
    /\ LexLess(rows[2].date, rows[3].date)
    /\ \E i, j \in 1..Len(df) :
        /\ i < j
        /\ normalise_date(df[i].activationDate) = rows[3].date
        /\ normalise_date(df[j].activationDate) = rows[2].date
        /\ df[i].points = 3 /\ df[j].points = 3

====
